---------------------------- MODULE Spec2Model ----------------------------
(***************************************************************************)
(* Model of src/monarch_mcp_server/secure_session.py: SecureMonarchSession *)
(* keeps one token in a KEY=VALUE text file (.env), reads it back from the *)
(* process environment, and removes legacy session artifacts.              *)
(*                                                                         *)
(* Text is a sequence of atoms.  An atom is one character (" ", "#", "=",  *)
(* "\n", "a", ...) or an indivisible word ("MONARCH_TOKEN", "K", "J").     *)
(* The file is the flat sequence of the atoms it holds, line terminators   *)
(* included, so that reading lines, strip(), split('=', 1) and the         *)
(* f"{key}={value}\n" formatting are computed, not assumed.                *)
(***************************************************************************)
EXTENDS Naturals, Sequences, FiniteSets

(* ------------------------------ bounds -------------------------------- *)

\* Largest number of lines of an initial .env file.
MaxLines == 2

(* ----------------------------- constants ------------------------------ *)

\* MONARCH_TOKEN_ENV_VAR = "MONARCH_TOKEN"
MONARCH_TOKEN_ENV_VAR == <<"MONARCH_TOKEN">>

NL == "\n"
SP == " "
EQ == "="
HASH == "#"
\* What a write past the end of a truncated file leaves in the gap.
NUL == "NUL"

\* cleanup_paths, in the order of the list.
cleanup_paths == <<".mm/mm_session.pickle", "monarch_session.json", ".mm">>

Procs == {1, 2}

\* Tokens handed to save_token: free of whitespace and newlines (what an
\* API login returns); one of them contains '=', one is the empty string.
Tokens == { <<"a">>, <<"b", EQ, "a">>, <<>> }

\* os.environ.get(MONARCH_TOKEN): unset, set to the empty string, or set.
EnvValues == { [set |-> FALSE, val |-> <<>>],
               [set |-> TRUE,  val |-> <<>>],
               [set |-> TRUE,  val |-> <<"a">>],
               [set |-> TRUE,  val |-> <<"z">>] }

(* ------------------------- str / dict / file -------------------------- *)

\* str.strip() with no argument removes leading and trailing whitespace.
IsSpace(c) == c \in {SP, NL}

RECURSIVE lstrip(_)
lstrip(s) == IF s # <<>> /\ IsSpace(Head(s)) THEN lstrip(Tail(s)) ELSE s

RECURSIVE rstrip(_)
rstrip(s) == IF s # <<>> /\ IsSpace(s[Len(s)])
             THEN rstrip(SubSeq(s, 1, Len(s) - 1)) ELSE s

strip(s) == rstrip(lstrip(s))

\* line.startswith('#')
startswith_hash(s) == s # <<>> /\ Head(s) = HASH

\* '=' in line
contains_eq(s) == \E i \in 1..Len(s) : s[i] = EQ

\* line.split('=', 1) of a line that contains '=': <<key, value>>.
split_eq(s) ==
  LET i == CHOOSE j \in 1..Len(s) : s[j] = EQ /\ \A k \in 1..(j-1) : s[k] # EQ
  IN  << SubSeq(s, 1, i - 1), SubSeq(s, i + 1, Len(s)) >>

\* `for line in f`: the text cut after each "\n"; a last line may lack it.
RECURSIVE readlines(_, _)
readlines(data, cur) ==
  IF data = <<>> THEN (IF cur = <<>> THEN <<>> ELSE <<cur>>)
  ELSE IF Head(data) = NL
       THEN <<Append(cur, NL)>> \o readlines(Tail(data), <<>>)
       ELSE readlines(Tail(data), Append(cur, Head(data)))

\* A dict is the sequence of its <<key, value>> items in insertion order.
dict_keys(d) == { d[i][1] : i \in 1..Len(d) }

dict_get(d, k) == d[CHOOSE i \in 1..Len(d) : d[i][1] = k][2]

\* d[k] = v keeps the position of a key already present.
dict_set(d, k, v) ==
  IF k \in dict_keys(d)
  THEN [i \in 1..Len(d) |-> IF d[i][1] = k THEN <<k, v>> ELSE d[i]]
  ELSE Append(d, <<k, v>>)

\* del d[k]
RECURSIVE dict_del(_, _)
dict_del(d, k) ==
  IF d = <<>> THEN <<>>
  ELSE IF Head(d)[1] = k THEN dict_del(Tail(d), k)
       ELSE <<Head(d)>> \o dict_del(Tail(d), k)

\* The condition of lines 30 and 74 on a stripped line.
is_entry(line) == line # <<>> /\ ~startswith_hash(line) /\ contains_eq(line)

\* Lines 28-32 and 72-76: the loop that fills env_content.
RECURSIVE parse_lines(_, _)
parse_lines(lines, d) ==
  IF lines = <<>> THEN d
  ELSE LET line == strip(Head(lines))
       IN  IF is_entry(line)
           THEN parse_lines(Tail(lines),
                            dict_set(d, split_eq(line)[1], split_eq(line)[2]))
           ELSE parse_lines(Tail(lines), d)

parse_env(data) == parse_lines(readlines(data, <<>>), <<>>)

\* f"{key}={value}\n"
format_item(item) == item[1] \o <<EQ>> \o item[2] \o <<NL>>

\* write(2) of `text` at offset `pos` of a file holding `data`.
write_at(data, pos, text) ==
  LET end == pos + Len(text)
      n   == IF Len(data) > end THEN Len(data) ELSE end
  IN  [i \in 1..n |-> IF i > pos /\ i <= end THEN text[i - pos]
                      ELSE IF i <= Len(data) THEN data[i] ELSE NUL]

(* ------------------------- legacy artifacts --------------------------- *)

\* What a legacy path is on disk.
Kinds == {"missing", "file", "emptydir", "fulldir"}

\* The three legacy paths: the pickle file lives inside the .mm directory,
\* which may hold other entries too (`other`).
LegacyStates ==
  { fs \in [pickle : Kinds, json : Kinds, mm : {"missing", "file", "dir"},
            other : BOOLEAN] :
      /\ (fs.pickle # "missing" => fs.mm = "dir")
      /\ (fs.other => fs.mm = "dir") }

NoLegacy == [pickle |-> "missing", json |-> "missing", mm |-> "missing",
             other |-> FALSE]

\* What cleanup_paths[i] is in file system state fs.
kind_of(fs, i) ==
  IF i = 1 THEN fs.pickle
  ELSE IF i = 2 THEN fs.json
  ELSE IF fs.mm = "dir"
       THEN (IF fs.other \/ fs.pickle # "missing" THEN "fulldir" ELSE "emptydir")
       ELSE fs.mm

os_path_exists(fs, i) == kind_of(fs, i) # "missing"
os_path_isfile(fs, i) == kind_of(fs, i) = "file"
os_path_isdir(fs, i)  == kind_of(fs, i) \in {"emptydir", "fulldir"}
os_listdir_empty(fs, i) == kind_of(fs, i) = "emptydir"

\* os.remove(path) / os.rmdir(path) succeeding.
unlink(fs, i) ==
  IF i = 1 THEN [fs EXCEPT !.pickle = "missing"]
  ELSE IF i = 2 THEN [fs EXCEPT !.json = "missing"]
  ELSE [fs EXCEPT !.mm = "missing"]

\* Lines 128-134: the body of the try for one path, nothing failing.
cleanup_one(fs, i) ==
  IF os_path_exists(fs, i)
  THEN IF os_path_isfile(fs, i) THEN unlink(fs, i)
       ELSE IF os_path_isdir(fs, i) /\ os_listdir_empty(fs, i) THEN unlink(fs, i)
       ELSE fs
  ELSE fs

(* ------------------------------- state -------------------------------- *)

VARIABLES
  file,         \* ENV_FILE_PATH on disk: [exists, data]
  env,          \* os.environ[MONARCH_TOKEN]: [set, val]
  legacy,       \* the legacy paths on disk
  pc,           \* per caller: where its call stands
  op,           \* per caller: the method called
  token,        \* per caller: save_token's argument
  env_content,  \* per caller: the local dict
  widx,         \* per caller: next item of env_content to write
  wpos,         \* per caller: offset of its open file object
  cidx,         \* per caller: next index into cleanup_paths
  result,       \* per caller: the value returned
  log,          \* per caller: what the call did so far, in order
  failed,       \* per caller: the operation that raised, or "none"
  cfailed,      \* per caller: the cleanup paths whose try body raised
  file0,        \* per caller: the file when the call began
  legacy0,      \* per caller: the legacy paths when its cleanup began
  overlap,      \* a call began while another was in progress
  lastCall      \* the caller whose call began last

shared == <<file, env, legacy>>
locals == <<pc, op, token, env_content, widx, wpos, cidx, result>>
ghosts == <<log, failed, cfailed, file0, legacy0, overlap, lastCall>>
vars   == <<shared, locals, ghosts>>

NoResult == [kind |-> "none", val |-> <<>>]
NoFile   == [exists |-> FALSE, data |-> <<>>]

Finished == {"returned", "raised"}
AtRest   == {"idle"} \cup Finished

(* ----------------------------- initial state -------------------------- *)

\* Lines an .env file may hold before the first call.
InitLines ==
  { <<>>,                                        \* blank
    <<HASH, "MONARCH_TOKEN", EQ, "a">>,          \* commented-out token
    <<"K">>,                                     \* no '='
    <<"K", EQ, "a">>,
    <<SP, "K", EQ, "b", SP>>,                    \* padded, same key
    <<"J", EQ, "a", EQ, "b">>,                   \* '=' in the value
    <<EQ, "a">>,                                 \* empty key
    <<"MONARCH_TOKEN", EQ, "z">>,
    <<SP, "MONARCH_TOKEN", EQ, "a">>,
    <<"MONARCH_TOKEN", SP, EQ, "a">> }           \* another key: "MONARCH_TOKEN "

RECURSIVE join_lines(_)
join_lines(ls) ==
  IF ls = <<>> THEN <<>> ELSE Head(ls) \o <<NL>> \o join_lines(Tail(ls))

\* Every file of at most MaxLines lines, the last one with or without "\n".
InitTexts ==
  LET seqs == UNION { [1..n -> InitLines] : n \in 0..MaxLines }
  IN  { join_lines(ls) : ls \in seqs }
      \cup { SubSeq(join_lines(ls), 1, Len(join_lines(ls)) - 1) :
               ls \in { x \in seqs : x # <<>> } }

InitFiles == {NoFile} \cup { [exists |-> TRUE, data |-> t] : t \in InitTexts }

\* The files two concurrent callers start from.
RaceFiles ==
  { NoFile,
    [exists |-> TRUE, data |-> <<"K", EQ, "a", NL>>],
    [exists |-> TRUE, data |-> <<"K", EQ, "a", NL, "MONARCH_TOKEN", EQ, "z", NL>>] }

InitRest ==
  /\ pc = [p \in Procs |-> "idle"]
  /\ op = [p \in Procs |-> "none"]
  /\ token = [p \in Procs |-> <<>>]
  /\ env_content = [p \in Procs |-> <<>>]
  /\ widx = [p \in Procs |-> 1]
  /\ wpos = [p \in Procs |-> 0]
  /\ cidx = [p \in Procs |-> 1]
  /\ result = [p \in Procs |-> NoResult]
  /\ log = [p \in Procs |-> <<>>]
  /\ failed = [p \in Procs |-> "none"]
  /\ cfailed = [p \in Procs |-> {}]
  /\ file0 = [p \in Procs |-> NoFile]
  /\ legacy0 = [p \in Procs |-> NoLegacy]
  /\ overlap = FALSE
  /\ lastCall = 1

\* One caller: any .env file with no legacy artifact around, or any
\* combination of legacy artifacts and environment beside a small file.
Init ==
  /\ \/ /\ file \in InitFiles
        /\ env = [set |-> FALSE, val |-> <<>>]
        /\ legacy = NoLegacy
     \/ /\ file \in RaceFiles
        /\ env \in EnvValues
        /\ legacy \in LegacyStates
  /\ InitRest

\* Two callers.
InitRace ==
  /\ file \in RaceFiles
  /\ env = [set |-> FALSE, val |-> <<>>]
  /\ legacy \in {NoLegacy, [NoLegacy EXCEPT !.json = "file"]}
  /\ InitRest

(* ------------------------- decisions of the code ---------------------- *)

\* Faulty variant of load_token: the token is looked up in the .env file.
load_token_from_file(e) ==
  IF file.exists /\ MONARCH_TOKEN_ENV_VAR \in dict_keys(parse_env(file.data))
  THEN [kind |-> "str",
        val |-> dict_get(parse_env(file.data), MONARCH_TOKEN_ENV_VAR)]
  ELSE NoResult

\* Lines 54-60: os.getenv(MONARCH_TOKEN_ENV_VAR), returned when truthy.
load_token(e) ==
  IF e.set /\ e.val # <<>> THEN [kind |-> "str", val |-> e.val] ELSE NoResult

\* Faulty variant of on_exception: every method re-raises.
on_exception_raise(o) == "raised"

\* The except clauses: save_token logs and re-raises (47-49), delete_token
\* logs and falls off the end of the method (94-95).
on_exception(o) == IF o = "save_token" THEN "raised" ELSE "returned"

\* Faulty variant of updated: the token is added without looking for the key.
updated_append(o, d, t) ==
  IF o = "save_token" THEN Append(d, <<MONARCH_TOKEN_ENV_VAR, t>>)
  ELSE dict_del(d, MONARCH_TOKEN_ENV_VAR)

\* Faulty variant of updated: the mapping read from the file is dropped.
updated_forget(o, d, t) ==
  IF o = "save_token" THEN << <<MONARCH_TOKEN_ENV_VAR, t>> >> ELSE <<>>

\* Line 35, and lines 79-80.
updated(o, d, t) ==
  IF o = "save_token" THEN dict_set(d, MONARCH_TOKEN_ENV_VAR, t)
  ELSE IF MONARCH_TOKEN_ENV_VAR \in dict_keys(d)
       THEN dict_del(d, MONARCH_TOKEN_ENV_VAR)
       ELSE d

\* Faulty variant of writes_back: delete_token rewrites the file always.
writes_back_always(o, d) == TRUE

\* save_token always writes back (38); delete_token only inside the `if`
\* of line 79 (83).
writes_back(o, d) ==
  o = "save_token" \/ MONARCH_TOKEN_ENV_VAR \in dict_keys(d)

\* Faulty variant of then_cleanup: the call of the cleanup is left out.
then_return == "returned"

\* Lines 45 and 92: the call that follows the write-back, inside the try.
then_cleanup == "cleanup"

\* Faulty variant of after_cleanup_error: the first error ends the loop.
after_cleanup_error_break(i) == Len(cleanup_paths) + 1

\* Lines 135-136: the except of the loop body; the loop goes on.
after_cleanup_error(i) == i + 1

(* ------------------------------ actions ------------------------------- *)

Begin(p, o, t) ==
  /\ pc[p] \in AtRest
  /\ op' = [op EXCEPT ![p] = o]
  /\ token' = [token EXCEPT ![p] = t]
  /\ env_content' = [env_content EXCEPT ![p] = <<>>]
  /\ widx' = [widx EXCEPT ![p] = 1]
  /\ wpos' = [wpos EXCEPT ![p] = 0]
  /\ cidx' = [cidx EXCEPT ![p] = 1]
  /\ cfailed' = [cfailed EXCEPT ![p] = {}]
  /\ file0' = [file0 EXCEPT ![p] = file]
  /\ legacy0' = [legacy0 EXCEPT ![p] = NoLegacy]
  /\ overlap' = (overlap \/ \E q \in Procs \ {p} : pc[q] \notin AtRest)
  /\ lastCall' = p

\* save_token(token) is entered.
SaveToken(p, t) ==
  /\ Begin(p, "save_token", t)
  /\ pc' = [pc EXCEPT ![p] = "exists"]
  /\ result' = [result EXCEPT ![p] = NoResult]
  /\ log' = [log EXCEPT ![p] = <<>>]
  /\ failed' = [failed EXCEPT ![p] = "none"]
  /\ UNCHANGED shared

\* delete_token() is entered.
DeleteToken(p) ==
  /\ Begin(p, "delete_token", <<>>)
  /\ pc' = [pc EXCEPT ![p] = "exists"]
  /\ result' = [result EXCEPT ![p] = NoResult]
  /\ log' = [log EXCEPT ![p] = <<>>]
  /\ failed' = [failed EXCEPT ![p] = "none"]
  /\ UNCHANGED shared

\* load_token(), whole.
LoadToken(p) ==
  /\ Begin(p, "load_token", <<>>)
  /\ pc' = [pc EXCEPT ![p] = "returned"]
  /\ result' = [result EXCEPT ![p] = load_token(env)]
  /\ log' = [log EXCEPT ![p] = <<"getenv">>]
  /\ failed' = [failed EXCEPT ![p] = "none"]
  /\ UNCHANGED shared

\* get_authenticated_client(), MonarchMoney(token=token) succeeding when
\* it is reached.
GetAuthenticatedClient(p) ==
  LET tok == load_token(env) IN
  /\ Begin(p, "get_authenticated_client", <<>>)
  /\ pc' = [pc EXCEPT ![p] = "returned"]
  /\ result' = [result EXCEPT ![p] =
                  IF tok.kind = "none" THEN NoResult
                  ELSE [kind |-> "client", val |-> tok.val]]
  /\ log' = [log EXCEPT ![p] =
               IF tok.kind = "none" THEN <<"getenv">>
               ELSE <<"getenv", "construct">>]
  /\ failed' = [failed EXCEPT ![p] = "none"]
  /\ UNCHANGED shared

\* get_authenticated_client(), MonarchMoney(token=token) raising.
GetAuthenticatedClientFails(p) ==
  /\ load_token(env).kind # "none"
  /\ Begin(p, "get_authenticated_client", <<>>)
  /\ pc' = [pc EXCEPT ![p] = "returned"]
  /\ result' = [result EXCEPT ![p] = NoResult]
  /\ log' = [log EXCEPT ![p] = <<"getenv", "construct">>]
  /\ failed' = [failed EXCEPT ![p] = "construct"]
  /\ UNCHANGED shared

\* save_authenticated_session(mm) with a falsy mm.token: lines 115-116, a
\* warning and nothing else.  With a token it is save_token(mm.token).
SaveAuthenticatedSessionNoToken(p) ==
  /\ Begin(p, "save_authenticated_session", <<>>)
  /\ pc' = [pc EXCEPT ![p] = "returned"]
  /\ result' = [result EXCEPT ![p] = NoResult]
  /\ log' = [log EXCEPT ![p] = <<>>]
  /\ failed' = [failed EXCEPT ![p] = "none"]
  /\ UNCHANGED shared

\* What a step of a call in progress leaves alone.
Keep(p) == UNCHANGED <<op, token, result, file0, overlap, lastCall, env>>

\* Lines 26 and 70: ENV_FILE_PATH.exists().
Exists(p) ==
  /\ pc[p] = "exists"
  /\ pc' = [pc EXCEPT ![p] = IF file.exists THEN "read" ELSE "update"]
  /\ log' = [log EXCEPT ![p] = Append(@, "exists")]
  /\ Keep(p)
  /\ UNCHANGED <<file, legacy, env_content, widx, wpos, cidx, failed,
                 cfailed, legacy0>>

\* Lines 27-32 and 71-76: the file is opened and read to its end.
Read(p) ==
  /\ pc[p] = "read"
  /\ file.exists
  /\ env_content' = [env_content EXCEPT ![p] = parse_env(file.data)]
  /\ pc' = [pc EXCEPT ![p] = "update"]
  /\ log' = [log EXCEPT ![p] = Append(@, "read")]
  /\ Keep(p)
  /\ UNCHANGED <<file, legacy, widx, wpos, cidx, failed, cfailed, legacy0>>

\* open(ENV_FILE_PATH, 'r') or the reading raises.
ReadFails(p) ==
  /\ pc[p] = "read"
  /\ failed' = [failed EXCEPT ![p] = "read"]
  /\ pc' = [pc EXCEPT ![p] = on_exception(op[p])]
  /\ Keep(p)
  /\ UNCHANGED <<file, legacy, env_content, widx, wpos, cidx, log, cfailed,
                 legacy0>>

\* Line 35, or lines 79-80 and the choice between 83 and 89.
Update(p) ==
  /\ pc[p] = "update"
  /\ env_content' = [env_content EXCEPT ![p] = updated(op[p], @, token[p])]
  /\ pc' = [pc EXCEPT ![p] =
              IF writes_back(op[p], env_content[p]) THEN "open_w"
              ELSE then_cleanup]
  /\ legacy0' = [legacy0 EXCEPT ![p] = legacy]
  /\ Keep(p)
  /\ UNCHANGED <<file, legacy, widx, wpos, cidx, log, failed, cfailed>>

\* Lines 38 and 83: open(ENV_FILE_PATH, 'w') creates or truncates the file.
OpenW(p) ==
  /\ pc[p] = "open_w"
  /\ file' = [exists |-> TRUE, data |-> <<>>]
  /\ wpos' = [wpos EXCEPT ![p] = 0]
  /\ widx' = [widx EXCEPT ![p] = 1]
  /\ pc' = [pc EXCEPT ![p] = "write"]
  /\ log' = [log EXCEPT ![p] = Append(@, "open_w")]
  /\ Keep(p)
  /\ UNCHANGED <<legacy, env_content, cidx, failed, cfailed, legacy0>>

\* open(ENV_FILE_PATH, 'w') raises.
OpenWFails(p) ==
  /\ pc[p] = "open_w"
  /\ failed' = [failed EXCEPT ![p] = "open_w"]
  /\ pc' = [pc EXCEPT ![p] = on_exception(op[p])]
  /\ Keep(p)
  /\ UNCHANGED <<file, legacy, env_content, widx, wpos, cidx, log, cfailed,
                 legacy0>>

\* Lines 39-40 and 84-85: one item is written at the caller's offset.
WriteLine(p) ==
  /\ pc[p] = "write"
  /\ widx[p] <= Len(env_content[p])
  /\ LET text == format_item(env_content[p][widx[p]]) IN
       /\ file' = [file EXCEPT !.data = write_at(@, wpos[p], text)]
       /\ wpos' = [wpos EXCEPT ![p] = @ + Len(text)]
  /\ widx' = [widx EXCEPT ![p] = @ + 1]
  /\ log' = [log EXCEPT ![p] = Append(@, "write")]
  /\ Keep(p)
  /\ UNCHANGED <<legacy, env_content, pc, cidx, failed, cfailed, legacy0>>

\* A write, or the flush of the close, raises.
WriteFails(p) ==
  /\ pc[p] = "write"
  /\ failed' = [failed EXCEPT ![p] = "write"]
  /\ pc' = [pc EXCEPT ![p] = on_exception(op[p])]
  /\ Keep(p)
  /\ UNCHANGED <<file, legacy, env_content, widx, wpos, cidx, log, cfailed,
                 legacy0>>

\* The `with` block of the write-back ends; lines 42-45 and 87-92.
Close(p) ==
  /\ pc[p] = "write"
  /\ widx[p] > Len(env_content[p])
  /\ pc' = [pc EXCEPT ![p] = then_cleanup]
  /\ legacy0' = [legacy0 EXCEPT ![p] = legacy]
  /\ log' = [log EXCEPT ![p] = Append(@, "close")]
  /\ Keep(p)
  /\ UNCHANGED <<file, legacy, env_content, widx, wpos, cidx, failed, cfailed>>

\* Lines 126-134: one round of the loop of _cleanup_old_session_files.
CleanupPath(p) ==
  /\ pc[p] = "cleanup"
  /\ cidx[p] <= Len(cleanup_paths)
  /\ legacy' = cleanup_one(legacy, cidx[p])
  /\ cidx' = [cidx EXCEPT ![p] = @ + 1]
  /\ log' = [log EXCEPT ![p] = Append(@, "cleanup")]
  /\ Keep(p)
  /\ UNCHANGED <<file, env_content, pc, widx, wpos, failed, cfailed, legacy0>>

\* Lines 135-136: os.remove, os.listdir or os.rmdir raises on a path that
\* exists; nothing is removed.
CleanupPathFails(p) ==
  /\ pc[p] = "cleanup"
  /\ cidx[p] <= Len(cleanup_paths)
  /\ os_path_exists(legacy, cidx[p])
  /\ cfailed' = [cfailed EXCEPT ![p] = @ \cup {cidx[p]}]
  /\ cidx' = [cidx EXCEPT ![p] = after_cleanup_error(@)]
  /\ log' = [log EXCEPT ![p] = Append(@, "cleanup")]
  /\ Keep(p)
  /\ UNCHANGED <<file, legacy, env_content, pc, widx, wpos, failed, legacy0>>

\* _cleanup_old_session_files returns, and the method after it.
Return(p) ==
  /\ pc[p] = "cleanup"
  /\ cidx[p] > Len(cleanup_paths)
  /\ pc' = [pc EXCEPT ![p] = "returned"]
  /\ Keep(p)
  /\ UNCHANGED <<file, legacy, env_content, widx, wpos, cidx, log, failed,
                 cfailed, legacy0>>

(* --------------------------- specifications --------------------------- *)

\* One caller, calls one after the other, any operation may fail.
Next ==
  \E p \in {1} :
    \/ \E t \in Tokens : SaveToken(p, t)
    \/ DeleteToken(p)
    \/ LoadToken(p)
    \/ GetAuthenticatedClient(p)
    \/ GetAuthenticatedClientFails(p)
    \/ SaveAuthenticatedSessionNoToken(p)
    \/ Exists(p)
    \/ Read(p)
    \/ ReadFails(p)
    \/ Update(p)
    \/ OpenW(p)
    \/ OpenWFails(p)
    \/ WriteLine(p)
    \/ WriteFails(p)
    \/ Close(p)
    \/ CleanupPath(p)
    \/ CleanupPathFails(p)
    \/ Return(p)

Spec == Init /\ [][Next]_vars

\* Two callers, one call each, their steps interleaved; no operation fails.
NextRace ==
  \E p \in Procs :
    \/ \E t \in Tokens : pc[p] = "idle" /\ SaveToken(p, t)
    \/ pc[p] = "idle" /\ DeleteToken(p)
    \/ Exists(p)
    \/ Read(p)
    \/ Update(p)
    \/ OpenW(p)
    \/ WriteLine(p)
    \/ Close(p)
    \/ CleanupPath(p)
    \/ Return(p)

SpecRace == InitRace /\ [][NextRace]_vars

(* ------------------------ vocabulary of the claims -------------------- *)

\* The lines of a text as the code sees them after strip().
stripped_lines(data) ==
  LET ls == readlines(data, <<>>) IN [i \in 1..Len(ls) |-> strip(ls[i])]

\* The lines of a text that are entries of key k.
entries_of(data, k) ==
  { i \in 1..Len(stripped_lines(data)) :
      /\ is_entry(stripped_lines(data)[i])
      /\ split_eq(stripped_lines(data)[i])[1] = k }

\* The key-to-value mapping of a text, as a set of <<key, value>>.
mapping(data) == LET d == parse_env(data) IN { d[i] : i \in 1..Len(d) }

others(m) == { kv \in m : kv[1] # MONARCH_TOKEN_ENV_VAR }

\* The lines of a text without their terminator.
raw_lines(data) ==
  LET ls == readlines(data, <<>>)
  IN  { IF ls[i] # <<>> /\ ls[i][Len(ls[i])] = NL
        THEN SubSeq(ls[i], 1, Len(ls[i]) - 1) ELSE ls[i] : i \in 1..Len(ls) }

count(sq, x) == Cardinality({ i \in 1..Len(sq) : sq[i] = x })

FileEvents == {"exists", "read", "open_w", "write", "close"}

\* The call of p ended with nothing having raised.
Succeeded(p) == pc[p] = "returned" /\ failed[p] = "none"

(* ------------------------------- claims ------------------------------- *)

C3_DeleteAbsentWritesNothing ==
  \A p \in Procs :
    ( /\ op[p] = "delete_token"
      /\ pc[p] # "idle"
      /\ entries_of(file0[p].data, MONARCH_TOKEN_ENV_VAR) = {} )
    => file = file0[p]

\* A delete has completed on a file holding a comment and no token entry.
C3_Witness ==
  /\ Succeeded(1)
  /\ op[1] = "delete_token"
  /\ file0[1].exists
  /\ entries_of(file0[1].data, MONARCH_TOKEN_ENV_VAR) = {}
  /\ \E i \in 1..Len(file0[1].data) : file0[1].data[i] = HASH

\* C4 as stated: after a delete_token that found a MONARCH_TOKEN entry,
\* every non-blank line of the former file that is not a MONARCH_TOKEN
\* entry is a line of the file (surrounding whitespace aside).
C4_EveryOtherLineSurvives ==
  \A p \in Procs :
    ( /\ Succeeded(p)
      /\ op[p] = "delete_token"
      /\ entries_of(file0[p].data, MONARCH_TOKEN_ENV_VAR) # {} )
    => \A i \in 1..Len(stripped_lines(file0[p].data)) :
         ( /\ i \notin entries_of(file0[p].data, MONARCH_TOKEN_ENV_VAR)
           /\ stripped_lines(file0[p].data)[i] # <<>> ) =>
           \E l \in raw_lines(file.data) :
             strip(l) = stripped_lines(file0[p].data)[i]

\* C4 amended: after a delete_token that found a MONARCH_TOKEN entry, the
\* mapping of the file is the former mapping without MONARCH_TOKEN (every
\* other key with its value), and the file holds one line per key: blank
\* lines, comments, lines without '=' and repeated keys are not kept.
C4_OtherEntriesSurvive ==
  \A p \in Procs :
    ( /\ Succeeded(p)
      /\ op[p] = "delete_token"
      /\ entries_of(file0[p].data, MONARCH_TOKEN_ENV_VAR) # {} )
    => /\ file.exists
       /\ mapping(file.data) = others(mapping(file0[p].data))
       /\ Len(readlines(file.data, <<>>)) = Cardinality(mapping(file.data))

\* A delete has completed on a file that held a token entry and another key.
C4_Witness ==
  /\ Succeeded(1)
  /\ op[1] = "delete_token"
  /\ entries_of(file0[1].data, MONARCH_TOKEN_ENV_VAR) # {}
  /\ others(mapping(file0[1].data)) # {}
  /\ others(mapping(file.data)) # {}

\* C5: when reading, opening for writing or writing the file raises,
\* save_token ends by raising and delete_token ends by returning None;
\* nothing else makes a method raise.
C5_ErrorPolicies ==
  \A p \in Procs :
    /\ failed[p] \in {"read", "open_w", "write"} =>
         /\ op[p] = "save_token" => pc[p] = "raised"
         /\ op[p] = "delete_token" => pc[p] = "returned" /\ result[p] = NoResult
    /\ pc[p] = "raised" =>
         op[p] = "save_token" /\ failed[p] \in {"read", "open_w", "write"}

\* A delete_token whose write-back raised has returned, the file truncated.
C5_Witness ==
  /\ op[1] = "delete_token"
  /\ failed[1] = "write"
  /\ pc[1] = "returned"
  /\ file # file0[1]

\* The value load_token is specified to return for an environment.
env_token(e) ==
  IF e.set /\ e.val # <<>> THEN [kind |-> "str", val |-> e.val] ELSE NoResult

\* C6 as stated: load_token returns the value of the environment variable,
\* and absent when it is unset.
C6_LoadReturnsEnvValue ==
  \A p \in Procs :
    (op[p] = "load_token" /\ pc[p] = "returned") =>
      result[p] = IF env.set THEN [kind |-> "str", val |-> env.val]
                  ELSE NoResult

\* C6 amended: in every state, whatever save_token and delete_token have
\* done to the file, load_token returns the value of the environment
\* variable when it is set and not empty, and absent when it is unset or
\* empty; a call of it reads the environment only and raises nothing.
C6_LoadFollowsEnvNotFile ==
  /\ load_token(env) = env_token(env)
  /\ \A p \in Procs :
       (op[p] = "load_token" /\ pc[p] = "returned") =>
         /\ result[p] = env_token(env)
         /\ log[p] = <<"getenv">>
         /\ failed[p] = "none"
         /\ file = file0[p]

\* load_token has returned absent although an earlier save_token put the
\* token b=a, which no initial file holds, into the file.
C6_Witness ==
  /\ op[1] = "load_token"
  /\ pc[1] = "returned"
  /\ <<MONARCH_TOKEN_ENV_VAR, <<"b", EQ, "a">> >> \in mapping(file.data)
  /\ result[1] = NoResult

\* C7: get_authenticated_client returns absent when the environment
\* variable is unset or empty, a client made from its value when it is
\* not empty and the construction succeeds, and absent, without raising,
\* when the construction raises; it touches the file in no case.
C7_ClientFromEnv ==
  \A p \in Procs :
    (op[p] = "get_authenticated_client" /\ pc[p] # "idle") =>
      /\ pc[p] = "returned"
      /\ (~env.set \/ env.val = <<>>) =>
           result[p] = NoResult /\ failed[p] = "none"
      /\ (env.set /\ env.val # <<>> /\ failed[p] = "none") =>
           result[p] = [kind |-> "client", val |-> env.val]
      /\ failed[p] # "none" =>
           failed[p] = "construct" /\ result[p] = NoResult
      /\ \A i \in 1..Len(log[p]) : log[p][i] \notin FileEvents
      /\ file = file0[p]

\* A client was made from the environment's token a while the file held
\* another token.
C7_Witness ==
  /\ op[1] = "get_authenticated_client"
  /\ pc[1] = "returned"
  /\ result[1] = [kind |-> "client", val |-> <<"a">>]
  /\ \E kv \in mapping(file.data) :
       kv[1] = MONARCH_TOKEN_ENV_VAR /\ kv[2] # <<"a">>

\* The cleanup of p has gone through its loop.
CleanedUp(p) ==
  /\ op[p] \in {"save_token", "delete_token"}
  /\ pc[p] \in {"cleanup", "returned"}
  /\ failed[p] = "none"
  /\ cidx[p] > Len(cleanup_paths)

\* C8: once _cleanup_old_session_files has gone through its loop, whatever
\* the three paths were and whichever of them raised: every path that was
\* a file and did not raise is gone; .mm, if it was a directory and is
\* gone, held nothing but the pickle entry, which was removed before, and
\* did not raise; a directory that was not empty when examined is still
\* there; missing paths are still missing; all three paths were examined
\* and the call did not raise.
C8_CleanupRemovesFilesAndEmptyDir ==
  \A p \in Procs :
    CleanedUp(p) =>
      /\ \A i \in 1..Len(cleanup_paths) :
           /\ (kind_of(legacy0[p], i) = "file" /\ i \notin cfailed[p]) =>
                kind_of(legacy, i) = "missing"
           /\ kind_of(legacy0[p], i) = "missing" =>
                kind_of(legacy, i) = "missing"
      /\ \A i \in {1, 2} :
           kind_of(legacy0[p], i) = "fulldir" => kind_of(legacy, i) = "fulldir"
      /\ legacy0[p].other => (legacy.mm = "dir" /\ legacy.other)
      /\ (legacy0[p].mm = "dir" /\ legacy.mm = "missing") =>
           /\ ~legacy0[p].other
           /\ 3 \notin cfailed[p]
           /\ legacy0[p].pickle # "fulldir"
           /\ legacy0[p].pickle # "missing" => 1 \notin cfailed[p]
      /\ (legacy0[p].mm = "dir" /\ legacy.mm = "dir") =>
           \/ legacy.other
           \/ legacy.pickle # "missing"
           \/ 3 \in cfailed[p]
      /\ count(log[p], "cleanup") = Len(cleanup_paths)
      /\ pc[p] # "raised"

\* Removing the pickle file raised, .mm therefore stayed, and the loop went
\* on to remove monarch_session.json.
C8_Witness ==
  /\ CleanedUp(1)
  /\ cfailed[1] = {1}
  /\ legacy0[1].pickle = "file"
  /\ legacy0[1].json = "file"
  /\ ~legacy0[1].other
  /\ legacy.pickle = "file"
  /\ legacy.json = "missing"
  /\ legacy.mm = "dir"

\* C9 as stated: every save_token and delete_token call that has ended,
\* a call in which the file could not be read or written included, has
\* performed the cleanup.
C9_CleanupAfterEveryCall ==
  \A p \in Procs :
    (op[p] \in {"save_token", "delete_token"} /\ pc[p] \in Finished) =>
      count(log[p], "cleanup") > 0

\* C9 amended: a save_token or delete_token call that has ended has
\* performed the cleanup, all three paths, exactly when reading and
\* rewriting the file did not raise (a save, a delete that removed the
\* key, a delete that found none); a call in which they raised has not
\* performed it.  Within a call nothing is done to the file after the
\* cleanup has begun.
C9_CleanupAfterUnfailedCall ==
  \A p \in Procs :
    op[p] \in {"save_token", "delete_token"} =>
      /\ pc[p] \in Finished =>
           /\ failed[p] = "none" =>
                count(log[p], "cleanup") = Len(cleanup_paths)
           /\ failed[p] # "none" => count(log[p], "cleanup") = 0
      /\ \A i, j \in 1..Len(log[p]) :
           (log[p][i] = "cleanup" /\ log[p][j] \in FileEvents) => j < i

\* A delete that found no key has returned, the cleanup done after its read.
C9_Witness ==
  /\ op[1] = "delete_token"
  /\ pc[1] = "returned"
  /\ log[1] = <<"exists", "read", "cleanup", "cleanup", "cleanup">>

\* The caller whose call began first, of two.
firstCall == CHOOSE p \in Procs : p # lastCall

BothReturned == \A p \in Procs : Succeeded(p) /\ op[p] # "none"

\* C10: when two calls ran one after the other, every other key that was
\* in the file before both is in the file after both with its value, and
\* MONARCH_TOKEN is as the second call leaves it: one entry with its token
\* after a save, no entry after a delete.
C10_SerialCallsLoseNothing ==
  (BothReturned /\ ~overlap) =>
    /\ others(mapping(file0[firstCall].data)) \subseteq mapping(file.data)
    /\ op[lastCall] = "save_token" =>
         /\ <<MONARCH_TOKEN_ENV_VAR, token[lastCall]>> \in mapping(file.data)
         /\ Cardinality(entries_of(file.data, MONARCH_TOKEN_ENV_VAR)) = 1
    /\ op[lastCall] = "delete_token" =>
         entries_of(file.data, MONARCH_TOKEN_ENV_VAR) = {}

\* Two overlapping calls have both returned and a key that was in the file
\* before both is gone.
C10_Witness ==
  /\ BothReturned
  /\ overlap
  /\ \E kv \in others(mapping(file0[firstCall].data)) :
       kv \notin mapping(file.data)

=============================================================================
